---- MODULE Spec2Model ----
(***************************************************************************)
(* EchoDownloaderBot (src/main.py): a Telegram bot that takes a media URL, *)
(* asks for audio or video, downloads it with yt-dlp and sends the file.   *)
(*                                                                         *)
(* The model covers the ConversationHandler wiring of main(), the four     *)
(* conversation handlers, the /help handler and the delivery pipeline of   *)
(* handle_format_choice, split at its await points.                        *)
(*                                                                         *)
(* Text is a sequence of one-character strings, so that strip(), lower()   *)
(* and startswith() are computed rather than assumed.                      *)
(*                                                                         *)
(* Environment: the Application is built without concurrent_updates, so    *)
(* updates are taken from the update queue one at a time and the next one  *)
(* is dispatched only when the running handler has ended.  Every handler   *)
(* is split at its await points: while it is suspended updates can arrive  *)
(* in the queue, and nothing else runs.                                    *)
(*                                                                         *)
(* Every call that can fail may fail: the Telegram calls of every handler, *)
(* mkdtemp, download_media, open and rmtree (whose errors are ignored).    *)
(* An update can be an edited message (the CommandHandler and              *)
(* MessageHandler filters pass edited_message updates); update.message is  *)
(* None then and the handler raises AttributeError at its first use.  A    *)
(* handler that raises leaves the conversation state as it was; the        *)
(* Application logs the exception and takes the next update.               *)
(*                                                                         *)
(* The alphabet of texts is ASCII plus the white space of Unicode; a code  *)
(* point without an escape is written by its name, as "U+00A0".            *)
(***************************************************************************)
EXTENDS Integers, Sequences, FiniteSets, TLC

\* ---------------------------------------------------------------- bounds
MaxQueue == 1
\* keyboard messages of one chat that are on screen or have a press waiting
MaxMessages == 2
\* temporary directories rmtree could not remove
MaxLeftover == 1

\* ------------------------------------------------------ program constants
\* range(5, 0, -1): the countdown starts at 5 and stops before 0
CountdownFrom == 5
CountdownStop == 0

\* Conversation states: ASK_LINK, ASK_FORMAT = range(2); END is
\* ConversationHandler.END, after which the conversation key is dropped, so
\* "no conversation" (before /start, after the end) is one value, NONE.
ASK_LINK == "ASK_LINK"
ASK_FORMAT == "ASK_FORMAT"
NONE == "NONE"
ConvStates == {NONE, ASK_LINK, ASK_FORMAT}

\* ------------------------------------------------------------------ text
\* the characters str.strip() removes: those for which str.isspace() holds
Whitespace ==
    {"\t", "\n", "U+000B", "\f", "\r", "U+001C", "U+001D", "U+001E", "U+001F",
     " ", "U+0085", "U+00A0", "U+1680", "U+2000", "U+2001", "U+2002", "U+2003",
     "U+2004", "U+2005", "U+2006", "U+2007", "U+2008", "U+2009", "U+200A",
     "U+2028", "U+2029", "U+202F", "U+205F", "U+3000"}

LowerMap ==
    [A |-> "a", B |-> "b", C |-> "c", D |-> "d", E |-> "e", F |-> "f", G |-> "g",
     H |-> "h", I |-> "i", J |-> "j", K |-> "k", L |-> "l", M |-> "m", N |-> "n",
     O |-> "o", P |-> "p", Q |-> "q", R |-> "r", S |-> "s", T |-> "t", U |-> "u",
     V |-> "v", W |-> "w", X |-> "x", Y |-> "y", Z |-> "z"]

LowerChar(c) == IF c \in DOMAIN LowerMap THEN LowerMap[c] ELSE c

\* str.lower()
Lower(s) == [i \in 1..Len(s) |-> LowerChar(s[i])]

RECURSIVE LStrip(_)
LStrip(s) == IF s # <<>> /\ Head(s) \in Whitespace THEN LStrip(Tail(s)) ELSE s

RECURSIVE RStrip(_)
RStrip(s) ==
    IF s # <<>> /\ s[Len(s)] \in Whitespace
    THEN RStrip(SubSeq(s, 1, Len(s) - 1))
    ELSE s

\* str.strip()
Strip(s) == RStrip(LStrip(s))

\* str.startswith(prefix)
StartsWith(s, p) == Len(s) >= Len(p) /\ SubSeq(s, 1, Len(p)) = p

HttpPrefix == <<"h", "t", "t", "p", ":", "/", "/">>
HttpsPrefix == <<"h", "t", "t", "p", "s", ":", "/", "/">>

\* url.lower().startswith(("http://", "https://"))
IsValidUrl(url) == StartsWith(Lower(url), HttpPrefix) \/ StartsWith(Lower(url), HttpsPrefix)

\* The texts users send as plain (non-command) messages.
TxtHttp == <<"h", "t", "t", "p", ":", "/", "/", "a">>
TxtHttpsPadded ==
    <<"\r", " ", "H", "T", "T", "P", "S", ":", "/", "/", "B", ".", "C", "/", "v",
      "U+00A0", "\r", "\n">>
TxtFtp == <<"f", "t", "p", ":", "/", "/", "x", ".", "c", "/", "a">>
TxtEmbedded == <<"x", " ", "h", "t", "t", "p", ":", "/", "/", "a">>
TxtOneSlash == <<"H", "t", "t", "p", ":", "/", "a">>
TxtCrPadded == <<"\r", "h", "t", "t", "p", ":", "/", "/", "a", "\r">>
TxtFfPadded == <<"\f", "h", "t", "t", "p", ":", "/", "/", "a", "U+000B">>
TxtBlank == <<" ", "U+2003", "\t">>
Texts ==
    {TxtHttp, TxtHttpsPadded, TxtFtp, TxtEmbedded, TxtOneSlash, TxtCrPadded,
     TxtFfPadded, TxtBlank}

\* --------------------------------------------------------------- sessions
\* A conversation is keyed by (chat, user); user_data is keyed by user.
\* c1 is the private chat of u1; c2 is a group in which u1 and u2 write.
Chats == {"c1", "c2"}
Users == {"u1", "u2"}
Keys == {<<"c1", "u1">>, <<"c2", "u1">>, <<"c2", "u2">>}
\* the session of the runs with one conversation
PrivateKey == <<"c1", "u1">>

ChatOf(k) == k[1]
UserOf(k) == k[2]

\* ---------------------------------------------------------------- updates
\* msg: for a callback, the id of the message that carries the button pressed
\* (callback_query.message); NoMsg for the rest.
\* edited: the update is an edited_message, so update.message is None.
Update(k, kind, arg, msg) ==
    [key |-> k, kind |-> kind, arg |-> arg, msg |-> msg, edited |-> FALSE]
\* the user edits a message sent before: the same content as edited_message
Edited(u) == [u EXCEPT !.edited = TRUE]

Commands == {<<"start">>, <<"cancel">>, <<"help">>}
Choices == {<<"audio">>, <<"video">>}
\* a message that is neither text nor a command (a photo, a sticker)
OtherArg == <<"photo">>

\* The ids of the keyboard messages of a chat.  A message that has lost its
\* keyboard and has no press waiting is never referred to again, so its id
\* stands for the next keyboard message.
MsgIds == 1..MaxMessages
\* The keyboards a chat can show: with MaxKeyboards - 1 on screen and
\* MaxQueue - 1 presses waiting behind a link, one id is left for the
\* message ask_format sends.
MaxKeyboards == MaxMessages - MaxQueue + 1

MessageKinds == {"command", "text", "other"}

NoMsg == 0

IsCommand(u, name) == u.kind = "command" /\ u.arg = <<name>>

\* ----------------------------------------------------- outbound messages
Ev(t, choice, n, arg) == [t |-> t, choice |-> choice, n |-> n, arg |-> arg]

Greeting == Ev("greeting", "", 0, "")
InvalidUrl == Ev("invalid_url", "", 0, "")
Keyboard == Ev("keyboard", "", 0, "audio|video")
MissingUrl == Ev("missing_url", "", 0, "")
Farewell == Ev("farewell", "", 0, "")
HelpText == Ev("help", "", 0, "")
Downloading(choice) == Ev("downloading", choice, 0, "")
Done == Ev("done", "", 0, "")
ErrorMsg(e) == Ev("error", "", 0, e)
ReplyVideo == Ev("reply_video", "", 0, "")
ReplyAudio == Ev("reply_audio", "", 0, "")
\* run_in_executor(None, download_media, url, temp_dir, choice)
FetchCall(dir, fmt) == Ev("download_media", fmt, 0, dir)
\* reply_text of line 98 called and failed: no message reaches the user
ErrorUnsent(e) == Ev("error_unsent", "", 0, e)
\* shutil.rmtree(temp_dir, ignore_errors=True)
Rmtree(dir) == Ev("rmtree", "", 0, dir)
\* The handler ended by an exception no except clause caught; nothing is
\* sent for it, the Application logs it.
Uncaught(cause) == Ev("uncaught", "", 0, cause)
\* update.message is None: AttributeError at update.message.reply_text / .text
NoMessage == "update.message is None"
\* a Telegram call raises (NetworkError, TimedOut, Forbidden, BadRequest)
SendFailed == "send failed"
AnswerFailed == "answer failed"
EditFailed == "edit failed"
\* tempfile.mkdtemp raises OSError
MkdtempFailed == "mkdtemp failed"

\* second{'s' if sec>1 else ''}
SecondWordMutAlwaysPlural(sec) == "seconds"
SecondWord(sec) == IF sec > 1 THEN "seconds" ELSE "second"

Tick(choice, sec) == Ev("tick", choice, sec, SecondWord(sec))

\* ------------------------------------------------------------- user_data
\* A dict is a set of <<key, value>> pairs.
EmptyDict == {}
HasKey(d, key) == \E p \in d : p[1] = key
DictGet(d, key) == (CHOOSE p \in d : p[1] = key)[2]
DictSet(d, key, v) == {p \in d : p[1] # key} \cup {<<key, v>>}

\* the URLs ask_format can store
Urls == {Strip(t) : t \in {x \in Texts : IsValidUrl(Strip(x))}}

Messages ==
    {Update(k, "command", c, NoMsg) : k \in Keys, c \in Commands}
    \cup {Update(k, "text", t, NoMsg) : k \in Keys, t \in Texts}
    \cup {Update(k, "other", OtherArg, NoMsg) : k \in Keys}
Updates ==
    Messages
    \cup {Edited(u) : u \in Messages}
    \cup {Update(k, "callback", c, m) : k \in Keys, c \in Choices, m \in MsgIds}

\* ------------------------------------------------------------- the disk
\* Directory names, one more than can be left over.  mkdtemp() returns a
\* name not in use; names matter only up to renaming, so it is the first.
DirName == <<"tmp_a", "tmp_b", "tmp_c", "tmp_d">>
DirNames == {DirName[i] : i \in 1..(MaxLeftover + 1)}
Mkdtemp(dsk) ==
    DirName[CHOOSE i \in 1..(MaxLeftover + 1) :
        /\ DirName[i] \notin dsk
        /\ \A j \in 1..(i - 1) : DirName[j] \in dsk]
\* extensions yt-dlp's prepare_filename can report for a download
Exts == {"mp4", "webm"}
\* causes download_media can raise with
FetchCauses == {"Unsupported URL", "network"}

\* ----------------------------------------------------------------- state
VARIABLES
    conversations,  \* ConversationHandler's state per (chat, user); NONE = no entry
    user_data,      \* context.user_data per user
    keyboards,      \* per chat and message id: the link whose keyboard the message shows
    update_queue,   \* updates received and not yet dispatched
    pc,             \* where the running handler is suspended, or "idle"
    h,              \* the conversation and the locals of the running handler
    disk,           \* the temporary directories that exist
    trace,          \* what the handling of the latest update did, in order
    last,           \* the latest update dispatched, the state it met, its handler
    executor,       \* per conversation: download_media calls running on the executor
    accepted,       \* per user: the URL of the latest message ask_format accepted
    inputs          \* the updates the users of the run send

vars ==
    <<conversations, user_data, keyboards, update_queue, pc, h, disk, trace, last,
      executor, accepted, inputs>>

\* A message that shows a keyboard is known by the link the keyboard was
\* sent for; NoKeyboard is a message that shows none.
NoKeyboard == <<>>
NoKeyboards == [m \in MsgIds |-> NoKeyboard]
\* the keyboards on screen in a chat
Shown(kb) == Cardinality({m \in MsgIds : kb[m] # NoKeyboard})
\* the messages of a chat with a press waiting in the queue
Pressed(chat, queue) ==
    {queue[i].msg : i \in {j \in 1..Len(queue) :
        queue[j].kind = "callback" /\ ChatOf(queue[j].key) = chat}}
\* the id of the message reply_text sends: the first one not referred to
NewMsgId(kb, pressed) ==
    CHOOSE m \in MsgIds :
        /\ kb[m] = NoKeyboard /\ m \notin pressed
        /\ \A j \in 1..(m - 1) : kb[j] # NoKeyboard \/ j \in pressed
\* reply_text(..., reply_markup=InlineKeyboardMarkup(keyboard)): one more message
AddKeyboard(kb, m, url) == [kb EXCEPT ![m] = url]
\* edit_message_text without reply_markup: the message edited, and no other,
\* loses its keyboard, if it still had one
DropKeyboard(kb, msg) == [kb EXCEPT ![msg] = NoKeyboard]

NoKey == <<"", "">>
NoFile == [dir |-> "", ext |-> ""]
NoFrame ==
    [key |-> NoKey, choice |-> "", url |-> <<>>, temp_dir |-> "",
     file_path |-> NoFile, sec |-> 0, error |-> ""]
NoLast == [upd |-> Update(NoKey, "", <<>>, NoMsg), state |-> NONE, handler |-> ""]

\* The state after main() built the application: no conversation, no
\* user_data, nothing queued, no handler running.
Started ==
    /\ conversations = [k \in Keys |-> NONE]
    /\ user_data = [u \in Users |-> EmptyDict]
    /\ keyboards = [c \in Chats |-> NoKeyboards]
    /\ update_queue = <<>>
    /\ pc = "idle"
    /\ h = NoFrame
    /\ disk = {}
    /\ trace = <<>>
    /\ last = NoLast
    /\ executor = [k \in Keys |-> 0]
    /\ accepted = [u \in Users |-> <<>>]

\* One user talks to the bot in a private chat: a user who sends commands,
\* two links and a text that is none, photos, and presses buttons; a user
\* who sends /start and texts of every kind; a user who also edits messages
\* sent before.
PrivateUpdates ==
    {u \in Updates :
        /\ u.key = PrivateKey
        /\ ~u.edited
        /\ u.kind = "text" => u.arg \in {TxtHttp, TxtHttpsPadded, TxtOneSlash}}
TextUpdates ==
    {u \in Updates :
        /\ u.key = PrivateKey
        /\ ~u.edited
        /\ u.kind = "text" \/ (u.kind = "command" /\ u.arg = <<"start">>)}
EditedUpdates ==
    {u \in Updates :
        /\ u.key = PrivateKey
        /\ u.kind = "text" => u.arg \in {TxtHttp, TxtFtp}
        /\ u.kind = "command" => (u.edited \/ u.arg = <<"start">>)
        /\ u.kind = "callback" => (u.arg = <<"video">> /\ u.msg = 1)
        /\ u.kind = "other" => u.edited}
\* Two users write in the group: u1 sends /start and a link; u2 sends /start
\* and presses the buttons of the keyboard the bot sent to u1.
GroupUpdates ==
    {u \in Updates :
        /\ ChatOf(u.key) = "c2"
        /\ ~u.edited
        /\ \/ u.kind = "command" /\ u.arg = <<"start">>
           \/ u.kind = "text" /\ u.arg = TxtHttp /\ UserOf(u.key) = "u1"
           \/ u.kind = "callback" /\ u.msg = 1 /\ UserOf(u.key) = "u2"}
Init == Started /\ inputs \in {PrivateUpdates, TextUpdates, EditedUpdates, GroupUpdates}

\* One user writes in the private chat and in the group; in both chats the
\* user sends /start and a link, in the private chat the user presses the
\* video button of the keyboard message with the first id, in the group the
\* user sends /cancel and /help too.
\* The link sent in the private chat is not the one sent in the group.
LinkSentIn(chat) == IF chat = "c1" THEN TxtHttp ELSE TxtHttpsPadded
SessionUpdates ==
    {u \in Updates :
        /\ UserOf(u.key) = "u1"
        /\ ~u.edited
        /\ \/ u.kind = "command" /\ (u.arg = <<"start">> \/ ChatOf(u.key) = "c2")
           \/ u.kind = "text" /\ u.arg = LinkSentIn(ChatOf(u.key))
           \/ /\ u.kind = "callback" /\ u.arg = <<"video">> /\ u.msg = 1
              /\ ChatOf(u.key) = "c1"}
InitSessions == Started /\ inputs = SessionUpdates

\* ------------------------------------------------------------- dispatch
\* filters.ALL and the command/text filters pass the updates that carry a
\* message, new or edited; a callback query carries none.
IsMessage(u) == u.kind \in MessageKinds

\* ConversationHandler.check_update for the handlers registered in main(),
\* followed by the /help CommandHandler of the same group.
Route(state, u) ==
    \* entry_points, tried first also inside a conversation (allow_reentry)
    IF IsCommand(u, "start") THEN "start"
    \* no conversation: only entry points are tried, then the /help handler
    ELSE IF state = NONE THEN (IF IsCommand(u, "help") THEN "help" ELSE "unhandled")
    \* states[ASK_LINK]: filters.TEXT & ~filters.COMMAND
    ELSE IF state = ASK_LINK /\ u.kind = "text" THEN "ask_format"
    \* states[ASK_FORMAT]: CallbackQueryHandler
    ELSE IF state = ASK_FORMAT /\ u.kind = "callback" THEN "handle_format_choice"
    \* fallbacks, in order
    ELSE IF IsCommand(u, "cancel") THEN "cancel"
    ELSE IF IsMessage(u) THEN "start"
    ELSE "unhandled"

\* The update the Application takes next, and the handler it goes to.
\* (ApplicationBuilder() without concurrent_updates: the update fetcher awaits
\* the handler of one update before it takes the next.)
CanDispatchMutConcurrent == update_queue # <<>>
CanDispatch == pc = "idle" /\ update_queue # <<>>
NextUpdate == Head(update_queue)
NextState == conversations[NextUpdate.key]
NextHandler == Route(NextState, NextUpdate)

Dispatched(name) ==
    /\ update_queue' = Tail(update_queue)
    /\ last' = [upd |-> NextUpdate, state |-> NextState, handler |-> name]

\* the links waiting in the queue for a chat
QueuedLinks(chat) ==
    Cardinality({i \in 1..Len(update_queue) :
        /\ ChatOf(update_queue[i].key) = chat
        /\ update_queue[i].kind = "text"
        /\ ~update_queue[i].edited
        /\ IsValidUrl(Strip(update_queue[i].arg))})

\* the keyboards ask_format is about to send to a chat (suspended at lines 54-57)
BeingSent(chat) ==
    IF /\ pc = "reply"
       /\ last.handler = "ask_format"
       /\ ChatOf(last.upd.key) = chat
       /\ IsValidUrl(Strip(last.upd.arg))
    THEN 1 ELSE 0

\* A user sends or edits a message or a command, or presses a button of a
\* keyboard that is on screen; the update waits in the queue.  (A link is
\* sent only while the chat shows fewer than MaxKeyboards keyboards.)
Receive(u) ==
    /\ u \in inputs
    /\ Len(update_queue) < MaxQueue
    /\ u.kind = "callback" => keyboards[ChatOf(u.key)][u.msg] # NoKeyboard
    /\ (u.kind = "text" /\ ~u.edited /\ IsValidUrl(Strip(u.arg))) =>
           Shown(keyboards[ChatOf(u.key)]) + BeingSent(ChatOf(u.key))
               + QueuedLinks(ChatOf(u.key)) < MaxKeyboards
    /\ update_queue' = Append(update_queue, u)
    /\ UNCHANGED <<conversations, user_data, keyboards, pc, h, disk, trace, last,
                   executor, accepted, inputs>>

\* --------------------------------------------------------------- handlers
\* The handler named is called for the next update.  For an edited message
\* update.message is None and its first use (lines 39, 44, 107, 162) raises
\* AttributeError before any await; otherwise the handler runs up to its
\* reply, where it is suspended (await update.message.reply_text).
Called(name) ==
    /\ CanDispatch
    /\ NextHandler = name
    /\ Dispatched(name)
    /\ IF NextUpdate.edited
       THEN /\ trace' = <<Uncaught(NoMessage)>>
            /\ UNCHANGED <<pc, h>>
       ELSE /\ trace' = <<>>
            /\ pc' = "reply"
            /\ h' = [NoFrame EXCEPT !.key = NextUpdate.key]
    /\ UNCHANGED <<conversations, keyboards, disk, executor, inputs>>

\* The handler named is suspended at its reply.
AtReply(name) == pc = "reply" /\ last.handler = name

\* The reply is sent and the handler returns the state given.
Replied(msg, state) ==
    /\ trace' = <<msg>>
    /\ conversations' = [conversations EXCEPT ![h.key] = state]
    /\ pc' = "idle"
    /\ h' = NoFrame
    /\ UNCHANGED <<user_data, update_queue, disk, last, executor, accepted, inputs>>

\* The reply raises (a Telegram error): the handler ends by the exception
\* and no state is returned to the ConversationHandler.
ReplyRaises ==
    /\ trace' = <<Uncaught(SendFailed)>>
    /\ pc' = "idle"
    /\ h' = NoFrame
    /\ UNCHANGED <<conversations, user_data, keyboards, update_queue, disk, last,
                   executor, accepted, inputs>>

\* start() is called and waits for its reply (line 39), or raises at once.
Start ==
    /\ Called("start")
    /\ UNCHANGED <<user_data, accepted>>

\* The greeting is sent; return ASK_LINK (line 40).
StartReturns ==
    /\ AtReply("start")
    /\ Replied(Greeting, ASK_LINK)
    /\ UNCHANGED keyboards

\* update.message.reply_text of line 39 raises.
StartRaises == AtReply("start") /\ ReplyRaises

\* context.user_data['url'] = url
StoreUrlMutNoop(d, url) == d
StoreUrl(d, url) == DictSet(d, "url", url)

\* ask_format() is called: it raises at line 44 for an edited message;
\* otherwise it validates the trimmed text and waits for the reply of line
\* 46, or stores the URL (line 49) and waits for the reply with the keyboard
\* (lines 54-57).
AskFormat ==
    /\ Called("ask_format")
    /\ LET key == NextUpdate.key
           url == Strip(NextUpdate.arg)
       IN  IF NextUpdate.edited \/ ~IsValidUrl(url)
           THEN UNCHANGED <<user_data, accepted>>
           ELSE /\ user_data' = [user_data EXCEPT ![UserOf(key)] = StoreUrl(@, url)]
                /\ accepted' = [accepted EXCEPT ![UserOf(key)] = url]

\* The reply is sent: the validation error and `return ASK_LINK` (lines
\* 46-47), or the keyboard message and `return ASK_FORMAT` (lines 54-58).
AskFormatReturns ==
    /\ AtReply("ask_format")
    /\ LET url == Strip(last.upd.arg)
       IN  IF ~IsValidUrl(url)
           THEN /\ Replied(InvalidUrl, ASK_LINK)
                /\ UNCHANGED keyboards
           ELSE /\ Replied(Keyboard, ASK_FORMAT)
                /\ keyboards' =
                       [keyboards EXCEPT ![ChatOf(h.key)] =
                           AddKeyboard(@, NewMsgId(@, Pressed(ChatOf(h.key), update_queue)), url)]

\* The reply of line 46 or of lines 54-57 raises; after line 49 the URL
\* stays stored.
AskFormatRaises == AtReply("ask_format") /\ ReplyRaises

\* cancel() is called and waits for its reply (line 107), or raises at once.
Cancel ==
    /\ Called("cancel")
    /\ UNCHANGED <<user_data, accepted>>

\* The farewell is sent; return ConversationHandler.END (line 108).
CancelReturns ==
    /\ AtReply("cancel")
    /\ Replied(Farewell, NONE)
    /\ UNCHANGED keyboards

\* update.message.reply_text of line 107 raises.
CancelRaises == AtReply("cancel") /\ ReplyRaises

\* The lambda registered for /help, reached only outside a conversation, is
\* called; the Application awaits the reply_text it returns, or the lambda
\* raises at once.
Help ==
    /\ Called("help")
    /\ UNCHANGED <<user_data, accepted>>

\* The help text is sent; the handler is not part of the conversation.
HelpReturns ==
    /\ AtReply("help")
    /\ Replied(HelpText, conversations[h.key])
    /\ UNCHANGED keyboards

\* u.message.reply_text of line 162 raises.
HelpRaises == AtReply("help") /\ ReplyRaises

\* No handler of the application matches: the update is dropped.
Unhandled ==
    /\ CanDispatch
    /\ NextHandler = "unhandled"
    /\ Dispatched("unhandled")
    /\ trace' = <<>>
    /\ UNCHANGED <<conversations, user_data, keyboards, pc, h, disk, executor,
                   accepted, inputs>>

\* -------------------------------------------------- the delivery pipeline
\* download_media(): the name of the file yt-dlp reports, with the extension
\* rewritten to mp3 for audio.
DownloadMedia(download_dir, fmt, ext) ==
    [dir |-> download_dir, ext |-> IF fmt = "audio" THEN "mp3" ELSE ext]

\* for sec in range(5, 0, -1)
InCountdown(sec) == sec > CountdownStop

\* reply_video for 'video', reply_audio otherwise
MediaReply(choice) == IF choice = "video" THEN ReplyVideo ELSE ReplyAudio

\* shutil.rmtree(temp_dir, ignore_errors=True): the directory is gone, or a
\* file in it could not be deleted and the error was ignored.
AfterRmtree(dsk, dir, removed) == IF removed THEN dsk \ {dir} ELSE dsk

\* The way out of the try block by `return ASK_LINK` after the completion
\* prompt: the finally clause runs rmtree before the handler returns.
OnReturn(tr, dsk, dir, removed) ==
    [trace |-> tr \o <<Done, Rmtree(dir)>>, disk |-> AfterRmtree(dsk, dir, removed)]

\* The way out by `except Exception as e`: the error reply, then the finally
\* clause.
OnExceptionMutNoCleanup(tr, dsk, dir, e, removed) ==
    [trace |-> tr \o <<ErrorMsg(e)>>, disk |-> dsk]
OnExceptionMutAlsoDone(tr, dsk, dir, e, removed) ==
    [trace |-> tr \o <<ErrorMsg(e), Done, Rmtree(dir)>>,
     disk |-> AfterRmtree(dsk, dir, removed)]
OnException(tr, dsk, dir, e, removed) ==
    [trace |-> tr \o <<ErrorMsg(e), Rmtree(dir)>>,
     disk |-> AfterRmtree(dsk, dir, removed)]

\* The error reply of line 98 raises: nothing is sent, the finally clause
\* runs and the exception leaves the handler.
OnErrorReplyRaises(tr, dsk, dir, e, removed) ==
    [trace |-> tr \o <<ErrorUnsent(e), Rmtree(dir)>>,
     disk |-> AfterRmtree(dsk, dir, removed)]

\* `return ASK_LINK`, lines 94 and 99
ReturnState == ASK_LINK

\* The handler returns and the ConversationHandler stores the state returned.
ReturnedMutClearsUrl(exit) ==
    /\ trace' = exit.trace
    /\ disk' = exit.disk
    /\ conversations' = [conversations EXCEPT ![h.key] = ReturnState]
    /\ pc' = "idle"
    /\ h' = NoFrame
    /\ user_data' = [user_data EXCEPT ![UserOf(h.key)] = EmptyDict]
    /\ UNCHANGED <<keyboards, update_queue, last, accepted, inputs>>
Returned(exit) ==
    /\ trace' = exit.trace
    /\ disk' = exit.disk
    /\ conversations' = [conversations EXCEPT ![h.key] = ReturnState]
    /\ pc' = "idle"
    /\ h' = NoFrame
    /\ UNCHANGED <<user_data, keyboards, update_queue, last, accepted, inputs>>

\* The handler raises: the ConversationHandler gets no state and keeps the
\* one the conversation had; the Application logs the exception and goes on.
Propagated(exit) ==
    /\ trace' = exit.trace
    /\ disk' = exit.disk
    /\ pc' = "idle"
    /\ h' = NoFrame
    /\ UNCHANGED <<conversations, user_data, keyboards, update_queue, last,
                   accepted, inputs>>

\* The download_media call leaves the executor, by return or by exception.
FutureDone == executor' = [executor EXCEPT ![h.key] = @ - 1]

\* What rmtree can do with the directory of the running handler: remove it,
\* or leave it while fewer than MaxLeftover directories have been left.
RmtreeOutcomes ==
    IF Cardinality(disk \ {h.temp_dir}) < MaxLeftover THEN {TRUE, FALSE} ELSE {TRUE}

\* An exception e reaches the except clause (line 96): the handler waits for
\* the error reply of line 98.
Raised(e) ==
    /\ pc' = "error_reply"
    /\ h' = [h EXCEPT !.error = e]
    /\ UNCHANGED <<conversations, user_data, keyboards, update_queue, disk, trace,
                   last, accepted, inputs>>

\* `return ConversationHandler.END` of the missing-URL branch
MissingUrlReturn == NONE

\* url = context.user_data.get('url'): the URL fetched is the one stored for
\* the user, whatever link the message pressed was sent for.
PendingUrlMutOfKeyboard(d, sent_for) == sent_for
PendingUrl(d, sent_for) == IF HasKey(d, "url") THEN DictGet(d, "url") ELSE <<>>

\* handle_format_choice() is called for a button pressed in ASK_FORMAT and
\* waits for query.answer() (line 63); the keyboard is still on screen.
HandleFormatChoice ==
    /\ CanDispatch
    /\ NextHandler = "handle_format_choice"
    /\ Dispatched("handle_format_choice")
    /\ trace' = <<>>
    /\ h' = [NoFrame EXCEPT !.key = NextUpdate.key]
    /\ pc' = "answer"
    /\ UNCHANGED <<conversations, user_data, keyboards, disk, executor, accepted,
                   inputs>>

\* query.answer() returns: lines 64-66 read the choice and the stored URL,
\* then the handler waits for the edit of the keyboard message (line 67 or 71).
AnswerReturns ==
    /\ pc = "answer"
    /\ h' = [h EXCEPT !.choice = last.upd.arg[1],
                      !.url = PendingUrl(user_data[UserOf(h.key)],
                                         keyboards[ChatOf(h.key)][last.upd.msg])]
    /\ pc' = "edit"
    /\ UNCHANGED <<conversations, user_data, keyboards, update_queue, disk, trace,
                   last, executor, accepted, inputs>>

\* query.answer() raises (line 63): the handler ends before it read anything.
AnswerRaises ==
    /\ pc = "answer"
    /\ trace' = <<Uncaught(AnswerFailed)>>
    /\ pc' = "idle"
    /\ h' = NoFrame
    /\ UNCHANGED <<conversations, user_data, keyboards, update_queue, disk, last,
                   executor, accepted, inputs>>

\* The edit is done and the message has lost its keyboard.  Without a URL
\* it reads the missing-URL error and the handler returns END; otherwise it
\* reads the status, the directory is created and download_media is handed
\* to the executor (lines 71-78).
EditReturns ==
    /\ pc = "edit"
    /\ keyboards' = [keyboards EXCEPT ![ChatOf(h.key)] = DropKeyboard(@, last.upd.msg)]
    /\ IF h.url = <<>>  \* if not url
       THEN /\ trace' = <<MissingUrl>>
            /\ conversations' = [conversations EXCEPT ![h.key] = MissingUrlReturn]
            /\ pc' = "idle"
            /\ h' = NoFrame
            /\ UNCHANGED <<disk, executor>>
       ELSE LET dir == Mkdtemp(disk) IN
            /\ trace' = <<Downloading(h.choice), FetchCall(dir, h.choice)>>
            /\ disk' = disk \cup {dir}
            /\ h' = [h EXCEPT !.temp_dir = dir]
            /\ executor' = [executor EXCEPT ![h.key] = @ + 1]
            /\ pc' = "download"
            /\ UNCHANGED conversations
    /\ UNCHANGED <<user_data, update_queue, last, accepted, inputs>>

\* query.edit_message_text raises (line 67 or 71): the message keeps its
\* keyboard and the handler ends outside the try statement.
EditRaises ==
    /\ pc = "edit"
    /\ trace' = <<Uncaught(EditFailed)>>
    /\ pc' = "idle"
    /\ h' = NoFrame
    /\ UNCHANGED <<conversations, user_data, keyboards, update_queue, disk, last,
                   executor, accepted, inputs>>

\* The status is out and tempfile.mkdtemp() raises (line 73), before the try
\* statement: no directory, no download, no error reply.
MkdtempRaises ==
    /\ pc = "edit"
    /\ h.url # <<>>
    /\ keyboards' = [keyboards EXCEPT ![ChatOf(h.key)] = DropKeyboard(@, last.upd.msg)]
    /\ trace' = <<Downloading(h.choice), Uncaught(MkdtempFailed)>>
    /\ pc' = "idle"
    /\ h' = NoFrame
    /\ UNCHANGED <<conversations, user_data, update_queue, disk, last, executor,
                   accepted, inputs>>

\* download_media returns on the worker thread; the countdown starts.
DownloadReturns ==
    /\ pc = "download"
    /\ \E ext \in Exts :
           h' = [h EXCEPT !.file_path = DownloadMedia(h.temp_dir, h.choice, ext),
                          !.sec = CountdownFrom]
    /\ pc' = "countdown"
    /\ FutureDone
    /\ UNCHANGED <<conversations, user_data, keyboards, update_queue, disk, trace, last,
                   accepted, inputs>>

\* download_media raises (yt-dlp's DownloadError and the like).
DownloadRaises ==
    /\ pc = "download"
    /\ FutureDone
    /\ \E e \in FetchCauses : Raised(e)

\* One round of the countdown loop: edit the status message, sleep a second.
CountdownTick ==
    /\ pc = "countdown"
    /\ InCountdown(h.sec)
    /\ trace' = Append(trace, Tick(h.choice, h.sec))
    /\ h' = [h EXCEPT !.sec = @ - 1]
    /\ UNCHANGED <<conversations, user_data, keyboards, update_queue, pc, disk, last,
                   executor, accepted, inputs>>

\* status_msg.edit_text raises.
CountdownRaises ==
    /\ pc = "countdown"
    /\ InCountdown(h.sec)
    /\ Raised("edit failed")
    /\ UNCHANGED executor

\* The loop is over: open the file and send it as video or audio.
SendMedia ==
    /\ pc = "countdown"
    /\ ~InCountdown(h.sec)
    /\ trace' = Append(trace, MediaReply(h.choice))
    /\ pc' = "prompt"
    /\ UNCHANGED <<conversations, user_data, keyboards, update_queue, h, disk, last,
                   executor, accepted, inputs>>

\* open(file_path) or the reply_video/reply_audio call raises.
SendMediaRaises ==
    /\ pc = "countdown"
    /\ ~InCountdown(h.sec)
    /\ \E e \in {"No such file", "send failed"} : Raised(e)
    /\ UNCHANGED executor

\* The completion prompt, `return ASK_LINK`, the finally clause.
Prompt ==
    /\ pc = "prompt"
    /\ \E removed \in RmtreeOutcomes : Returned(OnReturn(trace, disk, h.temp_dir, removed))
    /\ UNCHANGED executor

\* The completion prompt's reply_text raises.
PromptRaises ==
    /\ pc = "prompt"
    /\ Raised("send failed")
    /\ UNCHANGED executor

\* The error reply is sent: `return ASK_LINK` (line 99) through the finally
\* clause.
ErrorReplyReturns ==
    /\ pc = "error_reply"
    /\ \E removed \in RmtreeOutcomes :
           Returned(OnException(trace, disk, h.temp_dir, h.error, removed))
    /\ UNCHANGED executor

\* The error reply raises: the finally clause runs and the exception leaves
\* the handler.
ErrorReplyRaises ==
    /\ pc = "error_reply"
    /\ \E removed \in RmtreeOutcomes :
           Propagated(OnErrorReplyRaises(trace, disk, h.temp_dir, h.error, removed))
    /\ UNCHANGED executor

\* ------------------------------------------------------------ the system
Next ==
    \/ \E u \in Updates : Receive(u)
    \/ Start
    \/ StartReturns
    \/ StartRaises
    \/ AskFormat
    \/ AskFormatReturns
    \/ AskFormatRaises
    \/ Cancel
    \/ CancelReturns
    \/ CancelRaises
    \/ Help
    \/ HelpReturns
    \/ HelpRaises
    \/ Unhandled
    \/ HandleFormatChoice
    \/ AnswerReturns
    \/ AnswerRaises
    \/ EditReturns
    \/ EditRaises
    \/ MkdtempRaises
    \/ DownloadReturns
    \/ DownloadRaises
    \/ CountdownTick
    \/ CountdownRaises
    \/ SendMedia
    \/ SendMediaRaises
    \/ Prompt
    \/ PromptRaises
    \/ ErrorReplyReturns
    \/ ErrorReplyRaises

Spec == Init /\ [][Next]_vars

\* The event loop resumes a handler whose awaited call has finished: the
\* executor future of download_media (assumed to terminate), asyncio.sleep(1)
\* and the Telegram calls; and it runs the handler of a waiting update.
PipelineStep ==
    \/ AnswerReturns \/ AnswerRaises
    \/ EditReturns \/ EditRaises \/ MkdtempRaises
    \/ DownloadReturns \/ DownloadRaises
    \/ CountdownTick \/ CountdownRaises
    \/ SendMedia \/ SendMediaRaises
    \/ Prompt \/ PromptRaises
    \/ ErrorReplyReturns \/ ErrorReplyRaises
ReplyStep ==
    \/ StartReturns \/ StartRaises
    \/ AskFormatReturns \/ AskFormatRaises
    \/ CancelReturns \/ CancelRaises
    \/ HelpReturns \/ HelpRaises
Dispatch ==
    \/ Start \/ AskFormat \/ Cancel \/ Help
    \/ Unhandled
    \/ HandleFormatChoice
SpecFair ==
    /\ Init /\ [][Next]_vars
    /\ WF_vars(PipelineStep) /\ WF_vars(ReplyStep) /\ WF_vars(Dispatch)

SpecSessions == InitSessions /\ [][Next]_vars

TypeOK ==
    /\ conversations \in [Keys -> ConvStates]
    /\ \A u \in Users : user_data[u] \subseteq {<<"url", x>> : x \in Urls}
    /\ keyboards \in [Chats -> [MsgIds -> Urls \cup {NoKeyboard}]]
    /\ \A c \in Chats : Shown(keyboards[c]) <= MaxKeyboards
    /\ Len(update_queue) <= MaxQueue
    /\ pc \in {"idle", "reply", "answer", "edit", "download", "countdown", "prompt",
              "error_reply"}
    /\ disk \subseteq DirNames
    /\ pc = "idle" => Cardinality(disk) <= MaxLeftover
    /\ executor \in [Keys -> {0, 1}]
    /\ accepted \in [Users -> Urls \cup {<<>>}]
    /\ inputs \subseteq Updates

\* ------------------------------------------------------------ properties
\* The step in which the Application takes the next update from the queue.
Dispatching == CanDispatch /\ update_queue' = Tail(update_queue)

LastKey == last.upd.key
LastTrace == trace[Len(trace)]

HasEv(t) == \E i \in 1..Len(trace) : trace[i].t = t

\* The latest update was a format choice taken in ASK_FORMAT with a URL
\* stored, its handler created its directory (line 73), and it is over.
PipelineCompleted ==
    /\ pc = "idle"
    /\ last.upd.kind = "callback"
    /\ last.state = ASK_FORMAT
    /\ HasKey(user_data[UserOf(LastKey)], "url")
    /\ HasEv("download_media")

\* The text, trimmed and lowered, begins with http:// or https://.
BeginsWithScheme(text) ==
    \/ StartsWith(Lower(Strip(text)), HttpPrefix)
    \/ StartsWith(Lower(Strip(text)), HttpsPrefix)

\* The step in which a handle_format_choice that created its directory ends.
PipelineEnds == pc \in {"prompt", "error_reply"} /\ pc' = "idle"

\* C1 as stated: when a delivery pipeline invocation is over, however it
\* ended, the temporary directory it created does not exist any more, and its
\* removal is the last thing the invocation did.
C1_Original ==
    PipelineCompleted =>
        /\ Len(trace) >= 3
        /\ trace[2].t = "download_media"
        /\ trace[2].arg \notin disk
        /\ LastTrace = Rmtree(trace[2].arg)
        /\ \A i \in 1..(Len(trace) - 1) : trace[i].t # "rmtree"

\* C1: however a delivery pipeline invocation ends, the last thing it does is
\* one call of rmtree on the directory it created, with errors ignored:
\* nothing is emitted after it, no other directory is touched, and the
\* directory is gone unless rmtree could not delete it.
C1_TempDirRemovedLast ==
    [][PipelineEnds =>
        /\ trace'[Len(trace')] = Rmtree(h.temp_dir)
        /\ \A i \in 1..(Len(trace') - 1) : trace'[i].t # "rmtree"
        /\ trace'[2] = FetchCall(h.temp_dir, h.choice)
        /\ disk' \in {disk \ {h.temp_dir}, disk}]_vars

\* A pipeline that ended by a failure of the completion prompt, after the
\* media was sent; rmtree ran last and left the directory.
C1_Witness ==
    /\ PipelineCompleted
    /\ HasEv("reply_video")
    /\ trace[Len(trace) - 1] = ErrorMsg("send failed")
    /\ LastTrace = Rmtree(trace[2].arg)
    /\ trace[2].arg \in disk

\* C2 as stated: a text taken in ASK_LINK that does not begin with http:// or
\* https:// (trimmed, case-insensitively) changes neither the stored URL nor
\* the keyboards nor the disk and starts no download, and when its handling
\* is over the validation error is what was emitted and the conversation is
\* in ASK_LINK.
C2_InvalidTextRejected ==
    [][(/\ last'.state = ASK_LINK
        /\ last'.upd.kind = "text"
        /\ ~BeginsWithScheme(last'.upd.arg)
        /\ Dispatching \/ pc = "reply")
       => (/\ user_data' = user_data
           /\ keyboards' = keyboards
           /\ disk' = disk
           /\ executor' = executor
           /\ pc' = "idle" =>
                /\ trace' = <<InvalidUrl>>
                /\ conversations'[LastKey'] = ASK_LINK)]_vars

\* C3 as stated: once a text beginning with http:// or https:// taken in
\* ASK_LINK has been handled, the stored URL is the trimmed text, character for character, the
\* keyboard was presented and the conversation is in ASK_FORMAT.
C3_ValidUrlStored ==
    (/\ pc = "idle"
     /\ last.state = ASK_LINK
     /\ last.upd.kind = "text"
     /\ BeginsWithScheme(last.upd.arg))
    => /\ HasKey(user_data[UserOf(LastKey)], "url")
       /\ DictGet(user_data[UserOf(LastKey)], "url") = Strip(last.upd.arg)
       /\ trace = <<Keyboard>>
       /\ conversations[LastKey] = ASK_FORMAT

\* C4 as stated: when download_media fails, the invocation emits the status,
\* then one error message with the cause, then removes the directory: no
\* tick, no attachment, no completion prompt; the conversation goes to
\* ASK_LINK.
C4_FetchFailure ==
    [][(pc = "error_reply" /\ h.error \in FetchCauses /\ pc' = "idle")
       => (/\ trace' = <<Downloading(h.choice), FetchCall(h.temp_dir, h.choice),
                         ErrorMsg(h.error), Rmtree(h.temp_dir)>>
           /\ h.temp_dir \notin disk'
           /\ conversations'[h.key] = ASK_LINK)]_vars

\* The latest update was a format choice whose download_media call returned:
\* the invocation got past the fetch, whatever happened afterwards.
FetchSucceeded ==
    /\ PipelineCompleted
    /\ ~(trace[3].t \in {"error", "error_unsent"} /\ trace[3].arg \in FetchCauses)

LastChoice == last.upd.arg[1]

\* What one invocation does when nothing raises, for the choice made.
FullDelivery(choice, dir) ==
    <<Ev("downloading", choice, 0, ""),
      Ev("download_media", choice, 0, dir),
      Ev("tick", choice, 5, "seconds"),
      Ev("tick", choice, 4, "seconds"),
      Ev("tick", choice, 3, "seconds"),
      Ev("tick", choice, 2, "seconds"),
      Ev("tick", choice, 1, "second"),
      Ev(IF choice = "video" THEN "reply_video" ELSE "reply_audio", "", 0, ""),
      Ev("done", "", 0, ""),
      Ev("rmtree", "", 0, dir)>>

\* C5 as stated, in what it says of the end: whenever the fetch succeeded the
\* invocation has reported an outcome, the completion prompt ends nothing but
\* the full delivery in its order (status, download_media with the choice
\* made, five ticks, one attachment of the kind chosen, prompt, removal of
\* the directory), and the conversation ends in ASK_LINK.
C5_SuccessfulFetch ==
    FetchSucceeded =>
        /\ HasEv("done") \/ HasEv("error")
        /\ HasEv("done") => trace = FullDelivery(LastChoice, trace[2].arg)
        /\ conversations[LastKey] = ASK_LINK

\* The ticks of the trace.
TickPositions == {i \in 1..Len(trace) : trace[i].t = "tick"}

\* C6 as stated: whenever the fetch succeeded there are exactly five ticks.
C6_Original ==
    FetchSucceeded => Cardinality(TickPositions) = 5

\* C6: at every moment of an invocation the ticks emitted so far are
\* n = 5, 4, 3, ... in this order, each for the choice made, with "seconds"
\* for n > 1 and "second" for n = 1; an attachment is preceded by all five of
\* them, and so is the end of an invocation in which nothing raised.
C6_Countdown ==
    /\ \A i \in TickPositions :
           /\ i \in 3..7
           /\ \A j \in 3..i : trace[j].t = "tick"
           /\ trace[i].n = 8 - i
           /\ trace[i].choice = trace[1].choice
           /\ trace[i].arg = (IF trace[i].n = 1 THEN "second" ELSE "seconds")
    /\ \A i \in 1..Len(trace) :
           trace[i].t \in {"reply_video", "reply_audio", "done"}
               => (TickPositions = 3..7 /\ i > 7)

\* The last tick, "1 second", is out and the media is not sent yet.
C6_Witness ==
    /\ pc = "countdown"
    /\ Len(trace) = 7
    /\ trace[7] = Ev("tick", h.choice, 1, "second")
    /\ trace[3] = Ev("tick", h.choice, 5, "seconds")

IsStart(u) == u.kind = "command" /\ u.arg = <<"start">>
IsCancel(u) == u.kind = "command" /\ u.arg = <<"cancel">>

\* C7 as stated, without its clause on the stored URL: once a /start, taken
\* in any state, has been handled, the greeting is what was emitted and the
\* conversation is in ASK_LINK.
C7_Greets ==
    (pc = "idle" /\ IsStart(last.upd)) =>
        /\ trace = <<Greeting>>
        /\ conversations[LastKey] = ASK_LINK

\* C8 as stated, for the states in which a conversation is under way: once a
\* /cancel taken in ASK_LINK or ASK_FORMAT has been handled, the farewell is
\* what was emitted and the conversation is over.
C8_Farewell ==
    (pc = "idle" /\ IsCancel(last.upd) /\ last.state \in {ASK_LINK, ASK_FORMAT}) =>
        /\ trace = <<Farewell>>
        /\ conversations[LastKey] = NONE

\* C9 as stated: once a format choice made while no URL is stored for its
\* user has been handled, the missing-URL error is what was emitted, no
\* download was started and the conversation is over.
C9_LostContext ==
    (/\ pc = "idle"
     /\ last.upd.kind = "callback"
     /\ ~HasKey(user_data[UserOf(LastKey)], "url"))
    => /\ trace = <<MissingUrl>>
       /\ conversations[LastKey] = NONE

\* The transitions section 4.1 names for a state and an event.
Matched(state, u) ==
    \/ IsStart(u)
    \/ IsCancel(u)
    \/ state = ASK_LINK /\ u.kind = "text"
    \/ state = ASK_FORMAT /\ u.kind = "callback"

WasDispatched == last.handler # ""

\* C10 as stated, for the messages of a conversation under way: once a
\* message taken in ASK_LINK or ASK_FORMAT that no transition matches (a text
\* in ASK_FORMAT, a photo, /help) has been handled, the greeting is what was
\* emitted and the conversation is in ASK_LINK.
C10_Restart ==
    (/\ pc = "idle"
     /\ WasDispatched
     /\ last.state \in {ASK_LINK, ASK_FORMAT}
     /\ last.upd.kind \in MessageKinds
     /\ ~Matched(last.state, last.upd))
    => /\ trace = <<Greeting>>
       /\ conversations[LastKey] = ASK_LINK

\* ask_format is called in this step for a link it accepts (line 49).
AcceptsLink ==
    /\ Dispatching
    /\ last'.handler = "ask_format"
    /\ ~NextUpdate.edited
    /\ IsValidUrl(Strip(NextUpdate.arg))

\* C11: no conversation ever has more than one download_media call in flight,
\* and a link is accepted for a conversation only when it is in ASK_LINK with
\* no download of its own running: never while its format choice or its
\* download is pending.
C11_OneInFlight ==
    [][/\ \A k \in Keys : executor[k] <= 1 /\ executor'[k] <= 1
       /\ AcceptsLink =>
            /\ conversations[NextUpdate.key] = ASK_LINK
            /\ executor[NextUpdate.key] = 0
            /\ h.key # NextUpdate.key]_vars

\* A download is running for a conversation while a new link of the same
\* conversation waits in the queue.
C11_Witness ==
    /\ pc = "download"
    /\ executor[h.key] = 1
    /\ update_queue # <<>>
    /\ NextUpdate.key = h.key
    /\ NextUpdate.kind = "text"
    /\ conversations[h.key] = ASK_FORMAT

\* C12 as stated: while the fetch or the countdown of one conversation is in
\* progress, a waiting update of another conversation can be handled.
C12_OthersHandled ==
    (pc \in {"download", "countdown"} /\ update_queue # <<>> /\ NextUpdate.key # h.key)
        => ENABLED Dispatch

\* The URLs a conversation's user sends in its chat.
SubmittedIn(k) ==
    {Strip(u.arg) : u \in {x \in inputs : x.key = k /\ x.kind = "text" /\ ~x.edited}}

\* The conversation a step acts for: the one of the update dispatched, or the
\* one of the running handler.
Acting == IF pc = "idle" /\ update_queue # <<>> THEN NextUpdate.key ELSE h.key

\* C13 as stated: a step taken for one conversation changes neither the state
\* of another conversation nor the URL pending for another conversation that
\* awaits its format choice, and the URL handle_format_choice has read for a
\* conversation was submitted in that conversation.
C13_PerSession ==
    /\ [][\A k \in Keys \ {Acting} :
            /\ conversations'[k] = conversations[k]
            /\ conversations[k] = ASK_FORMAT =>
                    user_data'[UserOf(k)] = user_data[UserOf(k)]]_vars
    /\ [](pc \in {"edit", "download", "countdown", "prompt", "error_reply"}
            => h.url \in SubmittedIn(h.key))

\* A pipeline has reported its outcome and its handler has returned.
OutcomeReported ==
    /\ pc = "idle"
    /\ last.handler = "handle_format_choice"
    /\ HasEv("done") \/ HasEv("error")

\* C14 as stated: once a pipeline has reported its outcome and the
\* conversation is back in ASK_LINK, no URL is stored.
C14_Original ==
    (OutcomeReported /\ conversations[LastKey] = ASK_LINK)
        => ~HasKey(user_data[UserOf(LastKey)], "url")

\* C14: the pipeline never clears the stored URL. No step of a running
\* handle_format_choice changes user_data, and when it returns after the
\* completion prompt or the error message the conversation is in ASK_LINK
\* with the URL it fetched still stored; only ask_format ever changes
\* user_data.
C14_UrlKept ==
    [][/\ pc # "idle" =>
            /\ user_data' = user_data
            /\ (PipelineEnds /\ trace'[Len(trace') - 1].t \in {"done", "error"}) =>
                /\ conversations'[h.key] = ASK_LINK
                /\ HasKey(user_data'[UserOf(h.key)], "url")
                /\ DictGet(user_data'[UserOf(h.key)], "url") = h.url
       /\ user_data' # user_data => last'.handler = "ask_format"]_vars

\* A successful pipeline has returned and the URL is still stored.
C14_Witness ==
    /\ OutcomeReported
    /\ HasEv("done")
    /\ conversations[LastKey] = ASK_LINK
    /\ HasKey(user_data[UserOf(LastKey)], "url")
    /\ disk = {}

\* C15 as stated: under fair scheduling every handle_format_choice that
\* started a download for a conversation eventually ends with the
\* conversation in ASK_LINK and the temporary directory removed, whatever the
\* outcome.
C15_PipelineEnds ==
    \A k \in Keys :
        (pc = "download" /\ h.key = k)
            ~> (pc = "idle" /\ conversations[k] = ASK_LINK /\ disk = {})

IsPrefix(a, b) == Len(a) <= Len(b) /\ SubSeq(b, 1, Len(a)) = a

\* A /cancel of the conversation whose download is in flight is waiting.
CancelWaiting ==
    /\ pc \in {"download", "countdown", "prompt", "error_reply"}
    /\ \E i \in 1..Len(update_queue) :
        /\ update_queue[i].key = h.key
        /\ update_queue[i].kind = "command"
        /\ update_queue[i].arg = <<"cancel">>

PipelineCauses == FetchCauses \cup {"edit failed", "No such file", "send failed"}

\* C16 as stated, without its clause on the directory: while a /cancel of the
\* conversation waits during its download, the download goes on untouched
\* (the /cancel stays in the queue, the output of the handler only grows),
\* and when the handler ends, the completion prompt or the error message has
\* been delivered before the cleanup.
C16_OutcomeDelivered ==
    [][CancelWaiting =>
        /\ IsPrefix(update_queue, update_queue')
        /\ IsPrefix(trace, trace')
        /\ pc' = "idle" =>
            /\ Len(trace') > Len(trace)
            /\ trace'[Len(trace') - 1] \in {Done} \cup {ErrorMsg(e) : e \in PipelineCauses}
            /\ trace'[Len(trace')] = Rmtree(h.temp_dir)]_vars

\* C17: a conversation in ASK_FORMAT has a stored URL that is non-empty and
\* begins with http:// or https:// in any letter case, and
\* handle_format_choice never takes its missing-URL branch.
C17_UrlPresent ==
    /\ \A k \in Keys :
        conversations[k] = ASK_FORMAT =>
            /\ HasKey(user_data[UserOf(k)], "url")
            /\ DictGet(user_data[UserOf(k)], "url") # <<>>
            /\ BeginsWithScheme(DictGet(user_data[UserOf(k)], "url"))
    /\ ~HasEv("missing_url")

\* handle_format_choice ran for a conversation in ASK_FORMAT and found the
\* URL.
C17_Witness ==
    /\ pc = "download"
    /\ last.state = ASK_FORMAT
    /\ conversations[h.key] = ASK_FORMAT
    /\ h.url = DictGet(user_data[UserOf(h.key)], "url")
    /\ trace[1].t = "downloading"

\* C18: the URL handle_format_choice has read, and hands to download_media, is
\* the URL of the last message ask_format accepted from that user, whichever
\* keyboard the pressed button belongs to.
C18_LatestUrl ==
    pc \in {"edit", "download", "countdown", "prompt", "error_reply"} =>
        /\ h.url = accepted[UserOf(h.key)]
        /\ h.url = DictGet(user_data[UserOf(h.key)], "url")

\* The button pressed belongs to the keyboard shown for an earlier URL.
C18_Witness ==
    /\ pc = "edit"
    /\ last.upd.kind = "callback"
    /\ keyboards[ChatOf(h.key)][last.upd.msg] \in Urls \ {h.url}
    /\ h.url = accepted[UserOf(h.key)]

\* Positions of the completion prompt and of the error message.
OutcomePositions == {i \in 1..Len(trace) : trace[i].t \in {"done", "error"}}
DeliveryBefore(i) ==
    \E j \in 1..(i - 1) : trace[j].t \in {"tick", "reply_video", "reply_audio"}

\* C19 as stated: never both the completion prompt and the error message, and
\* an error message only for a failure of download_media, so never after a
\* tick or an attachment.
C19_Original ==
    /\ Cardinality(OutcomePositions) <= 1
    /\ \A i \in OutcomePositions :
        trace[i].t = "error" =>
            /\ trace[i].arg \in FetchCauses
            /\ ~DeliveryBefore(i)

\* C19: never both the completion prompt and the error message, and neither
\* of them when the error reply itself failed. The error message reports a
\* failure of download_media or of a later step of the try block (countdown
\* edit, opening or sending the file, completion prompt); only the report of
\* a download_media failure is never preceded by a tick or an attachment.
C19_OneOutcome ==
    /\ Cardinality(OutcomePositions) <= 1
    /\ HasEv("error_unsent") => OutcomePositions = {}
    /\ \A i \in OutcomePositions :
        trace[i].t = "error" =>
            /\ trace[i].arg \in PipelineCauses
            /\ trace[i].arg \in FetchCauses => ~DeliveryBefore(i)
            /\ trace[i].arg \in {"No such file", "send failed"} => DeliveryBefore(i)

\* The error message follows the five ticks: opening the file failed.
C19_Witness ==
    /\ OutcomeReported
    /\ Cardinality(TickPositions) = CountdownFrom
    /\ trace[Len(trace) - 1] = ErrorMsg("No such file")
    /\ ~HasEv("done")

====
